---- MODULE Spec2Model ----
(***************************************************************************)
(* Model of finance_tracker_app.py: the transaction store                  *)
(* (st.session_state.transactions and transactions.csv), the form handler  *)
(* add_transaction_to_state, the "Clear all data" handler and the          *)
(* derivations main() computes on every run of the script.                 *)
(*                                                                         *)
(* Strings are sequences of one-character strings, amounts are whole       *)
(* dollars, a time of day is a second count plus a microsecond count.      *)
(***************************************************************************)
EXTENDS Integers, Sequences, FiniteSets, TLC

\* ---------------------------------------------------------------- bounds
MaxRows == 2        \* the form is not submitted once the store has this many rows
MaxFileRows == 2    \* rows of the file found on disk at start-up
MaxDay == 2         \* calendar days 1..MaxDay
MaxSec == 1         \* seconds of the day 0..MaxSec (0 is midnight)
MaxMicro == 1       \* microseconds 0..MaxMicro

Days == 1..MaxDay
Secs == 0..MaxSec
Micros == 0..MaxMicro

\* ---------------------------------------------------------------- strings
s_income == <<"i", "n", "c", "o", "m", "e">>
s_expense == <<"e", "x", "p", "e", "n", "s", "e">>
s_savings == <<"s", "a", "v", "i", "n", "g", "s">>
s_nan == <<"n", "a", "n">>
s_Expense_padded == <<" ", "E", "x", "p", "e", "n", "s", "e", " ">>
s_SAVINGS == <<"S", "A", "V", "I", "N", "G", "S">>

UpperAlpha == <<"A", "B", "C", "D", "E", "F", "G", "H", "I", "J", "K", "L", "M",
                "N", "O", "P", "Q", "R", "S", "T", "U", "V", "W", "X", "Y", "Z">>
LowerAlpha == <<"a", "b", "c", "d", "e", "f", "g", "h", "i", "j", "k", "l", "m",
                "n", "o", "p", "q", "r", "s", "t", "u", "v", "w", "x", "y", "z">>

LowerChar(c) ==
    IF \E i \in 1..26 : UpperAlpha[i] = c
    THEN LowerAlpha[CHOOSE i \in 1..26 : UpperAlpha[i] = c]
    ELSE c

\* str.lower()
StrLower(s) == [i \in 1..Len(s) |-> LowerChar(s[i])]

RECURSIVE LStrip(_)
LStrip(s) == IF s # <<>> /\ Head(s) = " " THEN LStrip(Tail(s)) ELSE s

RECURSIVE RStrip(_)
RStrip(s) == IF s # <<>> /\ s[Len(s)] = " " THEN RStrip(SubSeq(s, 1, Len(s) - 1)) ELSE s

\* str.strip()
StrStrip(s) == RStrip(LStrip(s))

\* ---------------------------------------------------------------- cells
\* A missing value of an object column (NaN); no string equals it.
NaN == <<"<NaN>">>
\* The values of a float column: a number (whole dollars) or NaN.
Float(n) == [kind |-> "float", v |-> n]
NaNFloat == [kind |-> "NaN"]
\* A missing value of a datetime column.
NaT == [kind |-> "NaT"]

Timestamp(d, s, u) == [kind |-> "Timestamp", day |-> d, sec |-> s, micro |-> u]

\* Text cells of the CSV file.
DateText(d, s) == [kind |-> "str", fmt |-> "%Y-%m-%d %H:%M:%S", day |-> d, sec |-> s]
GarbageText == [kind |-> "str", fmt |-> "garbage"]
NumText(n) == [kind |-> "str", fmt |-> "number", v |-> n]

\* a variant of Strftime: the format "%Y-%m-%d", which leaves the time of day out
Strftime_date_only(ts) == DateText(ts.day, 0)

\* timestamp.strftime("%Y-%m-%d %H:%M:%S"): the microseconds are not written
Strftime(ts) == DateText(ts.day, ts.sec)

\* pd.to_datetime(x, errors="coerce") on one value
ToDatetime(x) ==
    IF x.kind = "Timestamp" THEN x
    ELSE IF x.kind = "str" /\ x.fmt = "%Y-%m-%d %H:%M:%S" THEN Timestamp(x.day, x.sec, 0)
    ELSE NaT

\* pd.to_datetime(d) of a calendar date: midnight of that day
DateToDatetime(d) == Timestamp(d, 0, 0)

\* pd.to_numeric(x, errors="coerce") on one value
ToNumeric(x) ==
    IF x.kind = "float" \/ x.kind = "NaN" THEN x
    ELSE IF x.kind = "str" /\ x.fmt = "number" THEN Float(x.v)
    ELSE NaNFloat

\* Series.astype(str) on one value of an object column
AsTypeStr(x) == IF x = NaN THEN s_nan ELSE x

\* the test DataFrame.dropna applies to a value of a datetime, float, object column
IsNaDate(x) == x.kind = "NaT"
IsNaFloat(x) == x.kind = "NaN"
IsNaObject(x) == x = NaN

\* Timestamp comparison a <= b
TsLE(a, b) ==
    \/ a.day < b.day
    \/ a.day = b.day /\ a.sec < b.sec
    \/ a.day = b.day /\ a.sec = b.sec /\ a.micro <= b.micro

Abs(n) == IF n < 0 THEN 0 - n ELSE n

\* ---------------------------------------------------------------- settings
c_Work == <<"W", "o", "r", "k">>
c_Housing == <<"H", "o", "u", "s", "i", "n", "g">>
c_Food == <<"F", "o", "o", "d">>
c_Transportation == <<"T", "r", "a", "n", "s", "p", "o", "r", "t", "a", "t", "i", "o", "n">>
c_Utilities == <<"U", "t", "i", "l", "i", "t", "i", "e", "s">>
c_Shopping == <<"S", "h", "o", "p", "p", "i", "n", "g">>
c_Health == <<"H", "e", "a", "l", "t", "h">>
c_Fun == <<"F", "u", "n">>
c_Savings == <<"S", "a", "v", "i", "n", "g", "s">>
c_Other == <<"O", "t", "h", "e", "r">>
c_Food_padded == <<" ", "F", "o", "o", "d">>

CATEGORIES == <<c_Work, c_Housing, c_Food, c_Transportation, c_Utilities,
                c_Shopping, c_Health, c_Fun, c_Savings, c_Other>>

\* options of the "Transaction type" select box
TYPE_OPTIONS == <<s_income, s_expense, s_savings>>

\* ---------------------------------------------------------------- data helpers
\* A DataFrame is a sequence of rows; a row carries its index label.
empty_df == <<>>

\* df[mask]: the rows of df at the positions in keep, in the order of df
RECURSIVE RowsAt(_, _, _)
RowsAt(df, keep, i) ==
    IF i > Len(df) THEN <<>>
    ELSE (IF i \in keep THEN <<df[i]>> ELSE <<>>) \o RowsAt(df, keep, i + 1)

\* pd.read_csv: an empty text cell of an object column reads as NaN;
\* the frame gets the index 0..n-1
ReadCell(x) == IF x = <<>> THEN NaN ELSE x

ReadCsv(rows) ==
    [i \in 1..Len(rows) |->
        [index |-> i - 1, date |-> rows[i].date, description |-> rows[i].description,
         category |-> ReadCell(rows[i].category), amount |-> rows[i].amount,
         type |-> ReadCell(rows[i].type)]]

\* df.dropna(subset=["date", "amount", "type"])
DropNa(df) ==
    RowsAt(df, {i \in 1..Len(df) :
                  /\ ~IsNaDate(df[i].date)
                  /\ ~IsNaFloat(df[i].amount)
                  /\ ~IsNaObject(df[i].type)}, 1)

load_initial_data(f) ==
    IF ~f.exists THEN empty_df
    ELSE LET df == ReadCsv(f.rows) IN
         IF df = <<>> THEN empty_df
         ELSE DropNa([i \in 1..Len(df) |->
                  [index |-> df[i].index,
                   date |-> ToDatetime(df[i].date),
                   description |-> df[i].description,
                   category |-> StrStrip(AsTypeStr(df[i].category)),
                   amount |-> ToNumeric(df[i].amount),
                   type |-> StrStrip(StrLower(AsTypeStr(df[i].type)))]])

\* df.to_csv(..., index=False): the rows as text, without the index
ToCsv(df) ==
    [i \in 1..Len(df) |->
        [date |-> Strftime(df[i].date), description |-> df[i].description,
         category |-> df[i].category, amount |-> NumText(df[i].amount.v),
         type |-> df[i].type]]

\* a variant of save_to_csv: only the newest row is written
save_to_csv_newest_row(df) ==
    [exists |-> TRUE, rows |-> ToCsv(IF df = <<>> THEN df ELSE <<df[Len(df)]>>)]

save_to_csv(df) == [exists |-> TRUE, rows |-> ToCsv(df)]

\* a variant of NewRow: the amount of an expense is not negated
NewRow_unsigned(tx_date, desc, category, amount, t_type, now) ==
    LET timestamp == Timestamp(tx_date, now.sec, now.micro)
        date_str == Strftime(timestamp)
        t == StrStrip(StrLower(t_type))
    IN  [date |-> date_str, description |-> desc, category |-> category,
         amount |-> Float(Abs(amount)), type |-> t]

\* the row add_transaction_to_state builds, before it joins the frame
NewRow(tx_date, desc, category, amount, t_type, now) ==
    LET timestamp == Timestamp(tx_date, now.sec, now.micro)
        date_str == Strftime(timestamp)
        t == StrStrip(StrLower(t_type))
        signed_amount == IF t = s_expense THEN Float(0 - Abs(amount)) ELSE Float(Abs(amount))
    IN  [date |-> date_str, description |-> desc, category |-> category,
         amount |-> signed_amount, type |-> t]

\* a variant of ConcatRow: the new row is put first
ConcatRow_new_first(df, new_row) ==
    LET cat == <<new_row>> \o df
    IN  [i \in 1..Len(cat) |->
            [index |-> i - 1, date |-> cat[i].date, description |-> cat[i].description,
             category |-> cat[i].category, amount |-> cat[i].amount,
             type |-> cat[i].type]]

\* pd.concat([df, pd.DataFrame([new_row])], ignore_index=True)
ConcatRow(df, new_row) ==
    LET cat == df \o <<new_row>>
    IN  [i \in 1..Len(cat) |->
            [index |-> i - 1, date |-> cat[i].date, description |-> cat[i].description,
             category |-> cat[i].category, amount |-> cat[i].amount,
             type |-> cat[i].type]]

\* the frame add_transaction_to_state stores and saves
add_transaction_to_state(df, tx_date, desc, category, amount, t_type, now) ==
    LET cat == ConcatRow(df, NewRow(tx_date, desc, category, amount, t_type, now))
    IN  [i \in 1..Len(cat) |->
            [index |-> cat[i].index,
             date |-> ToDatetime(cat[i].date),
             description |-> cat[i].description,
             category |-> cat[i].category,
             amount |-> ToNumeric(cat[i].amount),
             type |-> cat[i].type]]

\* ---------------------------------------------------------------- derivations
RECURSIVE SumAmount(_)
SumAmount(df) == IF df = <<>> THEN 0 ELSE Head(df).amount.v + SumAmount(Tail(df))

OfType(df, t) == SelectSeq(df, LAMBDA r : r.type = t)
NotOfType(df, t) == SelectSeq(df, LAMBDA r : r.type # t)

\* main(): the date filter
FilterDf(df, sa, sd, ed) ==
    IF df # <<>>
    THEN IF sa THEN df
         ELSE SelectSeq(df, LAMBDA r : /\ TsLE(DateToDatetime(sd), r.date)
                                       /\ TsLE(r.date, DateToDatetime(ed)))
    ELSE df

\* a variant of Summary: the net balance counts the savings rows too
Summary_balance_with_savings(f) ==
    IF f = <<>>
    THEN [total_income |-> 0, total_expenses |-> 0, total_savings |-> 0,
          current_balance |-> 0]
    ELSE [total_income |-> SumAmount(OfType(f, s_income)),
          total_expenses |-> 0 - SumAmount(OfType(f, s_expense)),
          total_savings |-> SumAmount(OfType(f, s_savings)),
          current_balance |-> SumAmount(f)]

\* main(): the four summary metrics
Summary(f) ==
    IF f = <<>>
    THEN [total_income |-> 0, total_expenses |-> 0, total_savings |-> 0,
          current_balance |-> 0]
    ELSE [total_income |-> SumAmount(OfType(f, s_income)),
          total_expenses |-> 0 - SumAmount(OfType(f, s_expense)),
          total_savings |-> SumAmount(OfType(f, s_savings)),
          current_balance |-> SumAmount(NotOfType(f, s_savings))]

\* the orders of 1..n
Orders(n) == {p \in [1..n -> 1..n] : \A i, j \in 1..n : i # j => p[i] # p[j]}

\* df.sort_values("date"): kind="quicksort" is not a stable sort, so rows with
\* equal dates come out in any order
SortValuesByDate(df) ==
    {[i \in 1..Len(df) |-> df[p[i]]] : p \in
        {q \in Orders(Len(df)) :
            \A i, j \in 1..Len(df) : i < j => TsLE(df[q[i]].date, df[q[j]].date)}}

\* Series.cumsum() of the amount column
CumSum(df) == [i \in 1..Len(df) |-> SumAmount(SubSeq(df, 1, i))]

NoData == [shown |-> FALSE]

\* a variant of plot_balance_over_time: the rows are not sorted
plot_balance_over_time_unsorted(df) ==
    LET bal_df == NotOfType(df, s_savings) IN
    IF bal_df = <<>> THEN {NoData}
    ELSE {[shown |-> TRUE, rows |-> bal_df, y |-> CumSum(bal_df)]}

\* plot_balance_over_time: the plots the call can draw
plot_balance_over_time(df) ==
    LET bal_df == NotOfType(df, s_savings) IN
    IF bal_df = <<>> THEN {NoData}
    ELSE {[shown |-> TRUE, rows |-> s, y |-> CumSum(s)] : s \in SortValuesByDate(bal_df)}

\* plot_savings_over_time: the plots the call can draw
plot_savings_over_time(df) ==
    LET sav_df == OfType(df, s_savings) IN
    IF sav_df = <<>> THEN {NoData}
    ELSE {[shown |-> TRUE, rows |-> s, y |-> CumSum(s)] : s \in SortValuesByDate(sav_df)}

\* exp_df.groupby("category")["amount"].sum().abs(): one entry per category
GroupTotals(exp_df) ==
    {[category |-> c,
      total |-> Abs(SumAmount(SelectSeq(exp_df, LAMBDA r : r.category = c)))] :
        c \in {exp_df[i].category : i \in 1..Len(exp_df)}}

\* a variant of SortValuesDescending: ascending order
SortValuesAscending(g) ==
    {s \in [1..Cardinality(g) -> g] :
        /\ \A i, j \in 1..Cardinality(g) : i # j => s[i] # s[j]
        /\ \A i, j \in 1..Cardinality(g) : i < j => s[i].total <= s[j].total}

\* Series.sort_values(ascending=False): equal totals come out in any order
SortValuesDescending(g) ==
    {s \in [1..Cardinality(g) -> g] :
        /\ \A i, j \in 1..Cardinality(g) : i # j => s[i] # s[j]
        /\ \A i, j \in 1..Cardinality(g) : i < j => s[i].total >= s[j].total}

\* plot_expenses_by_category: the plots the call can draw
plot_expenses_by_category(df) ==
    LET exp_df == OfType(df, s_expense) IN
    IF exp_df = <<>> THEN {NoData}
    ELSE {[shown |-> TRUE, bars |-> s] : s \in SortValuesDescending(GroupTotals(exp_df))}

\* fractions num/den with den > 0
Frac(n, d) == [num |-> n, den |-> d]
FracMin(a, b) == IF a.num * b.den <= b.num * a.den THEN a ELSE b
FracLE(a, b) == a.num * b.den <= b.num * a.den

\* main(): the savings goal section
current_saved(f) == IF f # <<>> THEN SumAmount(OfType(f, s_savings)) ELSE 0

Progress(f, g) ==
    IF g <= 0 THEN Frac(0, 1) ELSE FracMin(Frac(current_saved(f), g), Frac(1, 1))

\* ---------------------------------------------------------------- inputs
\* the description typed into the form (the widget's default)
DESCRIPTION == "Paycheck"

\* the default of the "Savings goal (USD)" input
GOAL_DEFAULT == 1000

\* values typed into the "Savings goal (USD)" input (min_value=0.0)
Goals == {0, GOAL_DEFAULT}

\* what is entered in the form besides the date: a category of CATEGORIES,
\* an amount (min_value=0.00) and a type of TYPE_OPTIONS
FormEntry(c, a, t) == [category |-> CATEGORIES[c], amount |-> a, t_type |-> TYPE_OPTIONS[t]]

FormEntries ==
    { FormEntry(1, 1000, 1),
      FormEntry(3, 50, 2),
      FormEntry(8, 20, 2),
      FormEntry(3, 0, 2),
      FormEntry(9, 200, 3) }

\* the settings of the date filter: "Show all time", or a From and a To date
FilterSettings ==
    {[show_all |-> TRUE, start_date |-> 0, end_date |-> 0]}
        \cup {[show_all |-> FALSE, start_date |-> sd, end_date |-> ed] :
                 sd \in Days, ed \in Days}

\* the readings of datetime.now()
Moments == {Timestamp(d, s, u) : d \in Days, s \in Secs, u \in Micros}

CsvRow(date, category, amount, type) ==
    [date |-> date, description |-> DESCRIPTION, category |-> category,
     amount |-> amount, type |-> type]

\* rows a transactions.csv found at start-up may hold
RawRows ==
    { CsvRow(DateText(1, 1), c_Work, NumText(200), s_income),
      CsvRow(DateText(1, 0), c_Food, GarbageText, s_expense),
      CsvRow(GarbageText, c_Food, NumText(50), s_expense),
      CsvRow(DateText(MaxDay, 0), c_Food, NumText(50), <<>>),
      CsvRow(DateText(MaxDay, 1), c_Food_padded, NumText(0 - 50), s_Expense_padded),
      CsvRow(DateText(1, 0), c_Savings, NumText(0 - 50), s_SAVINGS),
      CsvRow(DateText(1, 0), c_Fun, NumText(50), s_expense),
      CsvRow(DateText(MaxDay, 0), c_Savings, NumText(1500), s_savings) }

\* the sequences of at most n different elements of S
RECURSIVE SeqsUpTo(_, _)
SeqsUpTo(S, n) ==
    IF n = 0 THEN {<<>>}
    ELSE LET shorter == SeqsUpTo(S, n - 1)
         IN  shorter \cup {q \in {Append(r, x) : r \in shorter, x \in S} :
                              \A i, j \in 1..Len(q) : i # j => q[i] # q[j]}

\* the states of transactions.csv at start-up
InitialFiles ==
    {[exists |-> FALSE, rows |-> <<>>]}
        \cup {[exists |-> TRUE, rows |-> q] : q \in SeqsUpTo(RawRows, MaxFileRows)}

\* ---------------------------------------------------------------- state
VARIABLES
    file,             \* transactions.csv
    initialized,      \* "transactions" in st.session_state
    transactions,     \* st.session_state.transactions
    clock,            \* the last reading of datetime.now()
    show_all,         \* the "Show all time" checkbox
    start_date,       \* the "From" date input (0: not drawn)
    end_date,         \* the "To" date input (0: not drawn)
    goal,             \* the "Savings goal (USD)" input
    df,               \* main(): the frame the run read
    filtered_df,      \* main(): the filtered frame
    total_income, total_expenses, total_savings, current_balance,
    balance_plot,     \* what plot_balance_over_time drew
    category_plot,    \* what plot_expenses_by_category drew
    savings_plot,     \* what plot_savings_over_time drew
    progress          \* the value given to st.progress

store == <<file, initialized, transactions, clock>>
widgets == <<show_all, start_date, end_date, goal>>
view == <<df, filtered_df, total_income, total_expenses, total_savings,
          current_balance, balance_plot, category_plot, savings_plot, progress>>
vars == <<file, initialized, transactions, clock, show_all, start_date, end_date, goal,
          df, filtered_df, total_income, total_expenses, total_savings,
          current_balance, balance_plot, category_plot, savings_plot, progress>>

Init ==
    /\ file \in InitialFiles
    /\ initialized = FALSE
    /\ transactions = empty_df
    /\ clock = Timestamp(1, 0, 0)
    /\ show_all = TRUE
    /\ start_date = 0
    /\ end_date = 0
    /\ goal = GOAL_DEFAULT
    /\ df = empty_df
    /\ filtered_df = empty_df
    /\ total_income = 0
    /\ total_expenses = 0
    /\ total_savings = 0
    /\ current_balance = 0
    /\ balance_plot = NoData
    /\ category_plot = NoData
    /\ savings_plot = NoData
    /\ progress = Frac(0, 1)

\* One run of main() over the frame d with the widgets at sa, sd, ed, g:
\* the filter, the metrics, the plots and the goal section.
RunMain(d, sa, sd, ed, g) ==
    LET f == FilterDf(d, sa, sd, ed)
        m == Summary(f)
    IN  /\ df' = d
        /\ show_all' = (IF d # <<>> THEN sa ELSE TRUE)
        /\ start_date' = (IF d # <<>> /\ ~sa THEN sd ELSE 0)
        /\ end_date' = (IF d # <<>> /\ ~sa THEN ed ELSE 0)
        /\ goal' = g
        /\ filtered_df' = f
        /\ total_income' = m.total_income
        /\ total_expenses' = m.total_expenses
        /\ total_savings' = m.total_savings
        /\ current_balance' = m.current_balance
        /\ balance_plot' \in plot_balance_over_time(f)
        /\ category_plot' \in plot_expenses_by_category(f)
        /\ savings_plot' \in plot_savings_over_time(f)
        /\ progress' = Progress(f, g)

\* the first run of a session: the store is loaded from the file
FirstRun ==
    /\ ~initialized
    /\ initialized' = TRUE
    /\ transactions' = load_initial_data(file)
    /\ RunMain(transactions', TRUE, 0, 0, GOAL_DEFAULT)
    /\ UNCHANGED <<file, clock>>

\* a run started by a change of the filter or of the goal
Rerun ==
    /\ initialized
    /\ \E w \in FilterSettings, g \in Goals :
           RunMain(transactions, w.show_all, w.start_date, w.end_date, g)
    /\ UNCHANGED store

\* "Save transaction": add_transaction_to_state, then st.rerun()
Submit ==
    /\ initialized
    /\ Len(transactions) < MaxRows
    /\ \E tx_date \in Days, e \in FormEntries, now \in Moments :
           /\ now # clock
           /\ TsLE(clock, now)
           /\ clock' = now
           /\ transactions' = add_transaction_to_state(transactions, tx_date, DESCRIPTION,
                                  e.category, e.amount, e.t_type, now)
           /\ file' = save_to_csv(transactions')
    /\ RunMain(transactions', show_all, start_date, end_date, goal)
    /\ UNCHANGED initialized

\* "Clear all data": the button is drawn when the filtered frame has rows; the run
\* that handles the click goes on to draw the frame it filtered before the click
ClearAll ==
    /\ initialized
    /\ FilterDf(transactions, show_all, start_date, end_date) # <<>>
    /\ transactions' = empty_df
    /\ file' = save_to_csv(transactions')
    /\ RunMain(transactions, show_all, start_date, end_date, goal)
    /\ UNCHANGED <<initialized, clock>>

Next == FirstRun \/ Rerun \/ Submit \/ ClearAll

Spec == Init /\ [][Next]_vars

\* ---------------------------------------------------------------- properties
\* the sum of the amounts of the rows of f at the positions in I
RECURSIVE SumAt(_, _)
SumAt(f, I) ==
    IF I = {} THEN 0
    ELSE LET i == CHOOSE k \in I : TRUE IN f[i].amount.v + SumAt(f, I \ {i})

Positions(f) == 1..Len(f)
PositionsOfType(f, t) == {i \in Positions(f) : f[i].type = t}
PositionsNotOfType(f, t) == {i \in Positions(f) : f[i].type # t}
LastRow(f) == f[Len(f)]
Appended == initialized /\ Len(transactions') = Len(transactions) + 1

\* the rows of transactions.csv (none when there is no file)
FileRows == IF file.exists THEN file.rows ELSE <<>>
FileMirrors == file.exists /\ file.rows = ToCsv(transactions)

\* C1 as stated: every row add_transaction_to_state creates has type "expense"
\* if and only if its stored amount is strictly below 0.
C1_SignIff ==
    [][Appended =>
          (LastRow(transactions').type = s_expense
              <=> LastRow(transactions').amount.v < 0)]_vars

\* C1 amended: a created row with a negative amount is an expense, a created
\* expense has an amount <= 0 (0 exactly when 0 was entered), and a created row
\* of any other type has an amount >= 0.
C1_SignAmended ==
    [][Appended =>
          LET r == LastRow(transactions') IN
          /\ r.amount.v < 0 => r.type = s_expense
          /\ r.type = s_expense => r.amount.v <= 0
          /\ r.type # s_expense => r.amount.v >= 0
          /\ r.amount.v # 0 => (r.type = s_expense <=> r.amount.v < 0)]_vars

C1_Witness ==
    /\ initialized
    /\ \E i, j \in Positions(transactions) :
          /\ transactions[i].type = s_expense /\ transactions[i].amount.v = 0
          /\ transactions[j].type = s_expense /\ transactions[j].amount.v = 0 - 20

\* C2: with a From/To filter set, a row of the frame is in the filtered frame if
\* and only if the calendar day of its timestamp lies in [From, To].
C2_FilterBoundary ==
    (initialized /\ ~show_all) =>
        \A i \in Positions(df) :
            (\E k \in Positions(filtered_df) : filtered_df[k] = df[i])
                <=> (start_date <= df[i].date.day /\ df[i].date.day <= end_date)

\* C3 as stated: once the session is loaded the file holds exactly the records
\* of the in-memory frame, in the same order.
C3_MirrorAlways == initialized => FileRows = ToCsv(transactions)

\* C3 amended: every append and every clear leaves the file holding exactly the
\* records of the in-memory frame, in order, and the two stay equal from then on.
C3_MirrorAfterWrite ==
    [][(initialized /\ (transactions' # transactions \/ file' # file \/ FileMirrors))
          => (file'.exists /\ file'.rows = ToCsv(transactions'))]_vars

C3_Witness ==
    /\ initialized
    /\ FileMirrors
    /\ Len(transactions) = 2
    /\ clock # Timestamp(1, 0, 0)

\* the index labels of the rows of f with a well-formed date, a numeric amount
\* and a type that is present
WellFormedLabels(f) ==
    {i - 1 : i \in {k \in 1..Len(f.rows) :
                      /\ f.rows[k].date.fmt = "%Y-%m-%d %H:%M:%S"
                      /\ f.rows[k].amount.fmt = "number"
                      /\ f.rows[k].type # <<>>}}

\* C4: the load returns exactly the rows of the file with a parseable date, a
\* numeric amount and a present type.
C4_LoadKeepsWellFormed ==
    [][(~initialized /\ initialized') =>
          /\ {transactions'[k].index : k \in Positions(transactions')} = WellFormedLabels(file)
          /\ Len(transactions') = Cardinality(WellFormedLabels(file))]_vars

\* the totals of C5 over the filtered frame, as sums over positions
TotalsAreSums ==
    /\ total_income = SumAt(filtered_df, PositionsOfType(filtered_df, s_income))
    /\ total_expenses = 0 - SumAt(filtered_df, PositionsOfType(filtered_df, s_expense))
    /\ total_savings = SumAt(filtered_df, PositionsOfType(filtered_df, s_savings))
    /\ current_balance = SumAt(filtered_df, PositionsNotOfType(filtered_df, s_savings))
    /\ filtered_df = <<>> =>
          (total_income = 0 /\ total_expenses = 0 /\ total_savings = 0 /\ current_balance = 0)

\* income 1000, expense 50, savings 200 entered on three days
ExampleDf ==
    add_transaction_to_state(
        add_transaction_to_state(
            add_transaction_to_state(empty_df, 1, DESCRIPTION, c_Work, 1000, s_income,
                                     Timestamp(1, 1, 0)),
            2, DESCRIPTION, c_Food, 50, s_expense, Timestamp(2, 1, 0)),
        3, DESCRIPTION, c_Savings, 200, s_savings, Timestamp(3, 1, 0))

ExampleTotals ==
    Summary(ExampleDf) = [total_income |-> 1000, total_expenses |-> 50,
                          total_savings |-> 200, current_balance |-> 950]

\* C5 as stated: the four totals are those sums, and total_expenses is a
\* non-negative magnitude.
C5_TotalsNonNegative == initialized => (TotalsAreSums /\ total_expenses >= 0)

\* C5 amended: the four totals are those sums (0 for an empty filtered frame);
\* total_expenses is non-negative when no expense row of the filtered frame has
\* a positive amount, as is the case for rows created through the form.
C5_Totals ==
    initialized =>
        /\ TotalsAreSums
        /\ ExampleTotals
        /\ (\A i \in PositionsOfType(filtered_df, s_expense) : filtered_df[i].amount.v <= 0)
              => total_expenses >= 0

C5_Witness ==
    /\ initialized
    /\ Len(filtered_df) = 2
    /\ total_income = 1000
    /\ total_expenses = 50
    /\ current_balance = 950

\* C6: when the filtered frame has a non-savings row, the balance plot holds
\* exactly the non-savings rows, in ascending timestamp order, with the running
\* sum of their amounts, and its last value is the net balance.
C6_BalanceSum ==
    (initialized /\ PositionsNotOfType(filtered_df, s_savings) # {}) =>
        LET I == PositionsNotOfType(filtered_df, s_savings) IN
        /\ balance_plot.shown
        /\ Len(balance_plot.rows) = Cardinality(I)
        /\ \A k \in Positions(balance_plot.rows) :
              /\ \E i \in I : filtered_df[i] = balance_plot.rows[k]
              /\ \A l \in Positions(balance_plot.rows) :
                    k < l =>
                        /\ balance_plot.rows[k].index # balance_plot.rows[l].index
                        /\ TsLE(balance_plot.rows[k].date, balance_plot.rows[l].date)
              /\ balance_plot.y[k] = SumAt(balance_plot.rows, 1..k)
        /\ balance_plot.y[Cardinality(I)] = SumAt(filtered_df, I)
        /\ balance_plot.y[Cardinality(I)] = current_balance

C6_Witness ==
    /\ initialized
    /\ balance_plot.shown
    /\ Len(balance_plot.rows) = 2
    /\ balance_plot.rows[1].index > balance_plot.rows[2].index
    /\ balance_plot.y[1] # balance_plot.y[2]

\* C7: the category plot has one bar for each category of the filtered expense
\* rows and no other, each bar is the absolute value of the sum of that
\* category's expense amounts, and the bars are in descending order.
C7_CategoryTotals ==
    initialized =>
        LET E == PositionsOfType(filtered_df, s_expense)
            cats == {filtered_df[i].category : i \in E}
        IN  IF E = {} THEN category_plot = NoData
            ELSE /\ category_plot.shown
                 /\ Len(category_plot.bars) = Cardinality(cats)
                 /\ {category_plot.bars[k].category : k \in Positions(category_plot.bars)} = cats
                 /\ \A k \in Positions(category_plot.bars) :
                       /\ category_plot.bars[k].total =
                             Abs(SumAt(filtered_df,
                                       {i \in E : filtered_df[i].category =
                                                     category_plot.bars[k].category}))
                       /\ \A l \in Positions(category_plot.bars) :
                             k < l => category_plot.bars[k].total >= category_plot.bars[l].total

C7_Witness ==
    /\ initialized
    /\ category_plot.shown
    /\ Len(category_plot.bars) = 2
    /\ category_plot.bars[1].total > category_plot.bars[2].total
    /\ \E i, j \in Positions(filtered_df) :
          /\ i < j
          /\ filtered_df[i].category = category_plot.bars[2].category
          /\ filtered_df[j].category = category_plot.bars[1].category

\* C8: progress is 0 for a goal <= 0 and min(total savings / goal, 1) otherwise,
\* and always lies within [0, 1].
C8_GoalClamp ==
    initialized =>
        /\ goal <= 0 => progress = Frac(0, 1)
        /\ goal > 0 =>
              progress = (IF total_savings >= goal THEN Frac(1, 1) ELSE Frac(total_savings, goal))
        /\ FracLE(Frac(0, 1), progress)
        /\ FracLE(progress, Frac(1, 1))

Fields(r) == <<r.date, r.description, r.category, r.amount, r.type>>

\* C9: a step either leaves the store as it is, or empties it, or adds one row
\* at its end and keeps every earlier row, field by field and in order.
C9_AppendOnly ==
    [][initialized =>
          \/ transactions' = transactions
          \/ transactions' = <<>>
          \/ /\ Len(transactions') = Len(transactions) + 1
             /\ \A i \in Positions(transactions) :
                   Fields(transactions'[i]) = Fields(transactions[i])]_vars

C9_Witness ==
    /\ initialized
    /\ Len(transactions) = 2
    /\ clock.day = MaxDay
    /\ transactions[1].date.day # transactions[2].date.day
    /\ transactions[1].type # transactions[2].type

SameDayInEntryOrder(plot) ==
    plot.shown =>
        \A a, b \in Positions(plot.rows) :
            (a < b /\ plot.rows[a].date.day = plot.rows[b].date.day)
                => plot.rows[a].index < plot.rows[b].index

\* C10 as stated: two rows with the same calendar date appear in the balance
\* and savings plots in the order they were entered.
C10_EntryOrder ==
    initialized => (SameDayInEntryOrder(balance_plot) /\ SameDayInEntryOrder(savings_plot))

SameDayBySecond(plot) ==
    plot.shown =>
        \A a, b \in Positions(plot.rows) :
            (/\ plot.rows[a].date.day = plot.rows[b].date.day
             /\ plot.rows[a].date.sec < plot.rows[b].date.sec) => a < b

\* C10 amended: a created row is stamped with the whole second of the time of
\* day at which it was submitted, and two rows with the same calendar date
\* appear in the plots in ascending order of that second; that is entry order
\* when the earlier entry was made at a strictly earlier second of the day.
C10_OrderBySecond ==
    [][Appended =>
          /\ LastRow(transactions').date.sec = clock'.sec
          /\ LastRow(transactions').date.micro = 0
          /\ SameDayBySecond(balance_plot')
          /\ SameDayBySecond(savings_plot')]_vars

C10_Witness ==
    /\ initialized
    /\ balance_plot.shown
    /\ Len(balance_plot.rows) = 2
    /\ balance_plot.rows[1].index < balance_plot.rows[2].index
    /\ balance_plot.rows[1].date.day = balance_plot.rows[2].date.day
    /\ balance_plot.rows[1].date.sec < balance_plot.rows[2].date.sec
    /\ clock.sec = balance_plot.rows[2].date.sec

====
